---- MODULE Spec2Model ----
(***************************************************************************)
(* Model of the LLM pipeline service: Validator -> Processor (retrieval,   *)
(* prompt composition, LLM call, response parsing) -> Pipeline result      *)
(* assembly, served by the /process endpoint of main.py.                   *)
(*                                                                         *)
(* Strings are sequences of one-character strings, so that strip(),        *)
(* lower(), split() and the f-string of the RAG prompt are computed the    *)
(* way the Python code computes them.                                      *)
(***************************************************************************)
EXTENDS Integers, Sequences, FiniteSets, TLC

\* ------------------------------------------------------------------ bounds
MaxQueryLen == 3
MaxDocs == 3
NumRequests == 2
MaxElapsed == 1

\* ------------------------------------------------------- program constants
default_min_query_length == 3
default_max_query_length == 2000
default_top_k == 3

\* ----------------------------------------------------------------- strings
Whitespace == {" ", "\n"}

QueryChars == {" ", "k", "Z"}

\* every sequence of at most n elements of a set
RECURSIVE SeqsUpTo(_, _)
SeqsUpTo(elems, n) ==
  IF n = 0 THEN {<<>>}
  ELSE LET shorter == SeqsUpTo(elems, n - 1)
       IN  shorter \cup {Append(s, c) : s \in shorter, c \in elems}

Min(a, b) == IF a < b THEN a ELSE b
Max(a, b) == IF a > b THEN a ELSE b

\* str.strip(): drop leading and trailing whitespace
RECURSIVE LStrip(_)
LStrip(s) ==
  IF s = <<>> THEN s
  ELSE IF Head(s) \in Whitespace THEN LStrip(Tail(s)) ELSE s

RECURSIVE RStrip(_)
RStrip(s) ==
  IF s = <<>> THEN s
  ELSE IF s[Len(s)] \in Whitespace THEN RStrip(SubSeq(s, 1, Len(s) - 1)) ELSE s

Strip(s) == RStrip(LStrip(s))

\* str.lower() on the letters the model uses
LowerChar(c) ==
  CASE c = "K" -> "k"
    [] c = "Z" -> "z"
    [] c = "P" -> "p"
    [] OTHER -> c

Lower(s) == [i \in 1..Len(s) |-> LowerChar(s[i])]

\* set(str.split()): the maximal runs of non-whitespace characters
Words(s) ==
  { SubSeq(s, p[1], p[2]) :
      p \in { q \in (1..Len(s)) \X (1..Len(s)) :
                /\ q[1] <= q[2]
                /\ \A n \in q[1]..q[2] : s[n] \notin Whitespace
                /\ (q[1] = 1 \/ s[q[1] - 1] \in Whitespace)
                /\ (q[2] = Len(s) \/ s[q[2] + 1] \in Whitespace) } }

\* sep.join(parts)
RECURSIVE Join(_, _)
Join(parts, sep) ==
  IF parts = <<>> THEN <<>>
  ELSE IF Len(parts) = 1 THEN parts[1]
  ELSE parts[1] \o sep \o Join(Tail(parts), sep)

\* list[:k] with Python's slice semantics (a negative k counts from the end)
SliceTo(s, k) ==
  IF k >= 0 THEN SubSeq(s, 1, Min(k, Len(s)))
  ELSE SubSeq(s, 1, Max(0, Len(s) + k))

\* ------------------------------------------------------------------ errors
\* Every error the components raise on purpose is a RuntimeError; kind is
\* the message it carries.  Anything else escapes as its Python class.
RuntimeError(kind) == [type |-> "RuntimeError", kind |-> kind]
Uncaught(type) == [type |-> type, kind |-> "uncategorized"]
NoError == [type |-> "none", kind |-> "none"]

ValidationKinds == {"id_generation_failed", "too_short", "too_long"}
ProcessingKinds == {"llm_call_failed", "parse_failed"}

\* ------------------------------------------------------------- models.py
NoQuery == [query_id |-> 0, query |-> <<>>]

\* UserQuery.validate_query: rejects an empty value, returns it stripped
UserQuery(query_id, v) ==
  IF v = <<>> \/ Strip(v) = <<>>
  THEN [error |-> Uncaught("ValidationError"), value |-> NoQuery]
  ELSE [error |-> NoError,
        value |-> [query_id |-> query_id, query |-> Strip(v)]]

\* ----------------------------------------------------------- validator.py
\* Validator.validate; ulid is the identifier ULID() produced, 0 when it
\* raised.
ValidateMinOffByOne(settings, query, ulid) ==
  LET query_clean == Strip(query)
  IN  IF ulid = 0
      THEN [error |-> RuntimeError("id_generation_failed"), value |-> NoQuery]
      ELSE IF Len(query_clean) <= settings.min_query_length
      THEN [error |-> RuntimeError("too_short"), value |-> NoQuery]
      ELSE IF Len(query_clean) > settings.max_query_length
      THEN [error |-> RuntimeError("too_long"), value |-> NoQuery]
      ELSE UserQuery(ulid, query_clean)

ValidateNoMaxCheck(settings, query, ulid) ==
  LET query_clean == Strip(query)
  IN  IF ulid = 0
      THEN [error |-> RuntimeError("id_generation_failed"), value |-> NoQuery]
      ELSE IF Len(query_clean) < settings.min_query_length
      THEN [error |-> RuntimeError("too_short"), value |-> NoQuery]
      ELSE UserQuery(ulid, query_clean)

Validate(settings, query, ulid) ==
  LET query_clean == Strip(query)
  IN  IF ulid = 0
      THEN [error |-> RuntimeError("id_generation_failed"), value |-> NoQuery]
      ELSE IF Len(query_clean) < settings.min_query_length
      THEN [error |-> RuntimeError("too_short"), value |-> NoQuery]
      ELSE IF Len(query_clean) > settings.max_query_length
      THEN [error |-> RuntimeError("too_long"), value |-> NoQuery]
      ELSE UserQuery(ulid, query_clean)

\* ----------------------------------------------------------- processor.py
\* A line of the knowledge base file, once parsed by json.loads:
\*   "text"         a JSON object with a string 'text'
\*   "no_text"      a JSON object without 'text'
\*   "text_not_str" a JSON object whose 'text' is not a string
\*   "not_dict"     valid JSON that is not an object
Doc(shape, text) == [shape |-> shape, text |-> text]

\* Processor._load_knowledge_base: the parsed lines, [] when the file is
\* missing or a line is not valid JSON
LoadKnowledgeBase(file) ==
  IF file.status = "ok" THEN file.lines ELSE <<>>

\* Processor.__init__: the knowledge base is loaded only when retrieval is on
InitKnowledgeBase(settings) ==
  IF settings.enable_retrieval THEN LoadKnowledgeBase(settings.kb_file)
  ELSE <<>>

\* Processor._load_system_prompt
LoadSystemPrompt(settings) ==
  IF settings.enable_retrieval THEN "system_rag" ELSE "system"

\* doc.get('text', '')
DocText(doc) == IF doc.shape = "text" THEN doc.text ELSE <<>>

\* doc.get(...) on a non-object, or .lower() on a non-string, raises
DocRaises(doc) == doc.shape \in {"text_not_str", "not_dict"}

\* len(query_words & doc_words)
Overlap(query, doc_text) ==
  Cardinality(Words(Lower(query)) \cap Words(Lower(doc_text)))

\* scored_docs: (overlap, doc_text) of the documents with overlap > 0, in
\* corpus order
ScoredDocs(query, kb) ==
  SelectSeq([i \in 1..Len(kb) |->
               <<Overlap(query, DocText(kb[i])), DocText(kb[i])>>],
            LAMBDA p : p[1] > 0)

\* list.sort(reverse=True, key=score) is stable: an element goes after every
\* element whose score is at least its own
RECURSIVE InsertDescUnstable(_, _)
InsertDescUnstable(sorted, x) ==
  IF sorted = <<>> THEN <<x>>
  ELSE IF Head(sorted)[1] > x[1]
       THEN <<Head(sorted)>> \o InsertDescUnstable(Tail(sorted), x)
       ELSE <<x>> \o sorted

RECURSIVE InsertDesc(_, _)
InsertDesc(sorted, x) ==
  IF sorted = <<>> THEN <<x>>
  ELSE IF Head(sorted)[1] >= x[1]
       THEN <<Head(sorted)>> \o InsertDesc(Tail(sorted), x)
       ELSE <<x>> \o sorted

RECURSIVE SortByScoreDesc(_)
SortByScoreDesc(s) ==
  IF s = <<>> THEN <<>>
  ELSE InsertDesc(SortByScoreDesc(SubSeq(s, 1, Len(s) - 1)), s[Len(s)])

\* scored_docs[:settings.top_k]
TopKPlusOne(sorted, top_k) == SliceTo(sorted, top_k + 1)

TopK(sorted, top_k) == SliceTo(sorted, top_k)

\* Processor._retrieve_context
RetrieveContext(settings, kb, query) ==
  IF ~settings.enable_retrieval \/ kb = <<>>
  THEN [error |-> NoError, docs |-> <<>>]
  ELSE IF \E i \in 1..Len(kb) : DocRaises(kb[i])
  THEN [error |-> Uncaught("AttributeError"), docs |-> <<>>]
  ELSE LET top == TopK(SortByScoreDesc(ScoredDocs(query, kb)),
                       settings.top_k)
       IN  [error |-> NoError, docs |-> [i \in 1..Len(top) |-> top[i][2]]]

ContextHeader == <<
    "C", "o", "n", "t", "e", "x", "t", " ", "i", "n", "f", "o", "r", "m", "a",
    "t", "i", "o", "n", ":", "\n" >>

QuestionLabel == <<
    "\n", "\n", "Q", "u", "e", "s", "t", "i", "o", "n", ":", " " >>

AnswerInstruction == <<
    "\n", "\n", "A", "n", "s", "w", "e", "r", " ", "b", "a", "s", "e", "d",
    " ", "o", "n", " ", "t", "h", "e", " ", "c", "o", "n", "t", "e", "x", "t",
    " ", "a", "b", "o", "v", "e", ".", " ", "I", "f", " ", "t", "h", "e", " ",
    "c", "o", "n", "t", "e", "x", "t", " ", "d", "o", "e", "s", "n", "'", "t",
    " ", "c", "o", "n", "t", "a", "i", "n", " ", "r", "e", "l", "e", "v", "a",
    "n", "t", " ", "i", "n", "f", "o", "r", "m", "a", "t", "i", "o", "n", ",",
    " ", "s", "a", "y", " ", "s", "o", "." >>

DocSeparator == << "\n", "\n" >>

\* Processor.process, step 2: the user message
RECURSIVE Reverse(_)
Reverse(s) == IF s = <<>> THEN <<>> ELSE Append(Reverse(Tail(s)), Head(s))

BuildUserPromptReversed(context_docs, query) ==
  IF context_docs # <<>>
  THEN ContextHeader \o Join(Reverse(context_docs), DocSeparator)
         \o QuestionLabel \o query \o AnswerInstruction
  ELSE query

BuildUserPrompt(context_docs, query) ==
  IF context_docs # <<>>
  THEN ContextHeader \o Join(context_docs, DocSeparator)
         \o QuestionLabel \o query \o AnswerInstruction
  ELSE query

\* What client.chat.completions.create can give back:
\*   "api_error"       the call raised
\*   "no_choices"      the response has no 'choices' attribute
\*   "choices_none"    response.choices is None
\*   "choices_empty"   response.choices is []
\*   "message_none"    choices[0].message is None
\*   "content_none"    choices[0].message.content is None
\*   "content"         choices[0].message.content is the string content
Response(shape, content) == [shape |-> shape, content |-> content]

\* the exception response.choices[0].message.content.strip() and the
\* emptiness check raise, "none" when they raise nothing
ParseException(resp) ==
  CASE resp.shape = "no_choices" -> "AttributeError"
    [] resp.shape = "choices_none" -> "TypeError"
    [] resp.shape = "choices_empty" -> "IndexError"
    [] resp.shape = "message_none" -> "AttributeError"
    [] resp.shape = "content_none" -> "AttributeError"
    [] resp.shape = "content" ->
         IF Strip(resp.content) = <<>> THEN "ValueError" ELSE "none"

\* except (IndexError, AttributeError, ValueError)
CaughtParseErrors == {"IndexError", "AttributeError", "ValueError"}

\* Processor.process, steps 3 and 4, given what the API call produced
ParseResponse(resp) ==
  IF resp.shape = "api_error"
  THEN [error |-> RuntimeError("llm_call_failed"), answer |-> <<>>]
  ELSE LET exc == ParseException(resp)
       IN  IF exc = "none"
           THEN [error |-> NoError, answer |-> Strip(resp.content)]
           ELSE IF exc \in CaughtParseErrors
           THEN [error |-> RuntimeError("parse_failed"), answer |-> <<>>]
           ELSE [error |-> Uncaught(exc), answer |-> <<>>]

\* ------------------------------------------------------------ pipeline.py
\* metadata of PipelineResult
MetadataAlwaysContext(sources) ==
  [sources_count |-> Len(sources), has_context |-> Len(sources) >= 0]

Metadata(sources) ==
  [sources_count |-> Len(sources), has_context |-> Len(sources) > 0]

\* PipelineResult as Pipeline.process builds it
PipelineResultAnswerAsQuery(vq, answer, sources, elapsed) ==
  [query_id |-> vq.query_id,
   query |-> answer,
   answer |-> answer,
   sources |-> sources,
   processing_time_ms |-> elapsed,
   metadata |-> Metadata(sources)]

PipelineResult(vq, answer, sources, elapsed) ==
  [query_id |-> vq.query_id,
   query |-> vq.query,
   answer |-> answer,
   sources |-> sources,
   processing_time_ms |-> elapsed,
   metadata |-> Metadata(sources)]

\* ------------------------------------------------------------ environment
Requests == 1..NumRequests

\* raw query strings a client may post
Queries == SeqsUpTo(QueryChars, MaxQueryLen)

ConcurrentQueries == { <<>>, <<"k">>, <<"k", " ", "Z">> }

\* the posted queries that validation leaves as they are
TrimmedQueries == { q \in Queries : q # <<>> /\ Strip(q) = q }

\* knowledge base documents
DocKZ == Doc("text", <<"K", "\n", "z">>)
DocZ == Doc("text", <<"z">>)
DocZK == Doc("text", <<"z", " ", "k">>)
DocP == Doc("text", <<"P">>)

GoodDocs == {DocKZ, DocZ, DocP}

File(status, lines) == [status |-> status, lines |-> lines]

\* what settings.knowledge_base_path may hold at start
KBFiles ==
  {File("missing", <<>>), File("malformed", <<>>)}
    \cup {File("ok", lines) : lines \in SeqsUpTo(GoodDocs, MaxDocs)}
    \cup {File("ok", <<Doc("no_text", <<>>), DocZ>>),
          File("ok", <<DocKZ, Doc("text_not_str", <<>>)>>),
          File("ok", <<Doc("not_dict", <<>>)>>),
          File("ok", <<DocKZ, DocZ, DocZK, DocP>>)}

SampleKB == File("ok", <<DocKZ, DocZ, DocZK>>)

TopKs == {-1, 0, 2, default_top_k}

Settings(min, max, enable, top_k, file) ==
  [min_query_length |-> min, max_query_length |-> max,
   enable_retrieval |-> enable, top_k |-> top_k, kb_file |-> file]

\* configurations that vary the validation limits
ValidationSettings ==
  { Settings(min, max, enable, default_top_k, SampleKB) :
      min \in {0, 1, default_min_query_length},
      max \in {2, default_max_query_length},
      enable \in BOOLEAN }

\* configurations that vary the retrieval inputs
RetrievalSettings ==
  { Settings(1, default_max_query_length, TRUE, top_k, file) :
      top_k \in TopKs, file \in KBFiles }

ConcurrentSettings ==
  Settings(1, default_max_query_length, TRUE, 2, SampleKB)

AnswerContents ==
  { <<>>, <<" ">>, <<" ", "o", "k", "\n">>, <<"n", "o">> }

LLMResponses ==
  { Response(shape, <<>>) :
      shape \in {"api_error", "no_choices", "choices_none", "choices_empty",
                 "message_none", "content_none"} }
    \cup { Response("content", c) : c \in AnswerContents }

SampleResponses ==
  { Response("api_error", <<>>), Response("content", <<" ", "o", "k", "\n">>) }

ConcurrentResponses ==
  SampleResponses
    \cup { Response("choices_none", <<>>), Response("content", <<"n", "o">>) }

Workload(clients, queries, responses) ==
  [clients |-> clients, queries |-> queries, responses |-> responses]

\* ------------------------------------------------------------------- state
VARIABLES
  settings,       \* config.settings, fixed at process start
  workload,       \* the clients that post, the queries they post and the
                  \* responses the LLM API gives
  started,        \* the startup hook has run
  instance,       \* get_pipeline.instance
  constructions,  \* number of Pipeline() constructions so far
  ulids,          \* number of identifiers ULID() has produced
  loopOwner,      \* the request whose handler occupies the event loop, or 0
  req             \* per request: position and local data

vars == <<settings, workload, started, instance, constructions, ulids,
          loopOwner, req>>

NoInstance == [id |-> 0, knowledge_base |-> <<>>, prompt_template |-> "none"]

\* Pipeline.__init__ (Validator(), Processor())
NewPipeline(s, id) ==
  [id |-> id,
   knowledge_base |-> InitKnowledgeBase(s),
   prompt_template |-> LoadSystemPrompt(s)]

IdleRequest ==
  [pc |-> "idle", raw |-> <<>>, seen |-> FALSE, pipe |-> 0,
   idgen |-> "none", vq |-> NoQuery,
   ctx |-> <<>>, prompt |-> <<>>, calls |-> 0, resp |-> <<>>,
   answer |-> <<>>, result |-> <<>>, err |-> NoError, stages |-> <<>>]

InitCommon ==
  /\ started = FALSE
  /\ instance = NoInstance
  /\ constructions = 0
  /\ ulids = 0
  /\ loopOwner = 0
  /\ req = [r \in Requests |-> IdleRequest]

\* one client; either the validation limits vary, with every query and
\* every response shape, or the knowledge base and top_k vary
Init ==
  /\ \/ /\ settings \in ValidationSettings
        /\ workload = Workload({1}, Queries, LLMResponses)
     \/ /\ settings \in RetrievalSettings
        /\ workload = Workload({1}, TrimmedQueries, SampleResponses)
  /\ InitCommon

\* several clients posting at once under one configuration
InitConcurrent ==
  /\ settings = ConcurrentSettings
  /\ workload = Workload(Requests, ConcurrentQueries, ConcurrentResponses)
  /\ InitCommon

\* ----------------------------------------------------------------- main.py
\* get_pipeline() as the startup hook calls it
StartupSkipsPipeline(inst, s, n) == inst

StartupGetPipeline(inst, s, n) ==
  IF inst.id = 0 THEN NewPipeline(s, n + 1) ELSE inst

\* startup_event: runs before the server accepts requests
StartupEvent ==
  /\ ~started
  /\ started' = TRUE
  /\ instance' = StartupGetPipeline(instance, settings, constructions)
  /\ constructions' =
       IF instance'.id # instance.id THEN constructions + 1 ELSE constructions
  /\ UNCHANGED <<settings, workload, ulids, loopOwner, req>>

\* POST /process arrives; the get_pipeline dependency is handed to the
\* thread pool
Arrive(r, q) ==
  /\ started
  /\ r \in workload.clients
  /\ q \in workload.queries
  /\ req[r].pc = "idle"
  /\ loopOwner = 0
  /\ req' = [req EXCEPT ![r] = [@ EXCEPT !.pc = "dep", !.raw = q]]
  /\ UNCHANGED <<settings, workload, started, instance, constructions, ulids,
                 loopOwner>>

\* get_pipeline, line 53: hasattr(get_pipeline, "instance")
GetPipelineCheck(r) ==
  /\ req[r].pc = "dep"
  /\ req' = [req EXCEPT ![r] =
               [@ EXCEPT !.pc = "dep_checked", !.seen = (instance.id # 0)]]
  /\ UNCHANGED <<settings, workload, started, instance, constructions, ulids,
                 loopOwner>>

\* get_pipeline, lines 54-55: construct if the check saw no instance, return
GetPipelineReturn(r) ==
  /\ req[r].pc = "dep_checked"
  /\ IF req[r].seen
     THEN UNCHANGED <<instance, constructions>>
     ELSE /\ instance' = NewPipeline(settings, constructions + 1)
          /\ constructions' = constructions + 1
  /\ req' = [req EXCEPT ![r] =
               [@ EXCEPT !.pc = "queued", !.pipe = instance'.id]]
  /\ UNCHANGED <<settings, workload, started, ulids, loopOwner>>

\* the request ends with an error; its handler leaves the event loop
Failed(rec, e) == [rec EXCEPT !.pc = "failed", !.err = e]

\* process_query -> Pipeline.process, step 1: Validator.validate
StepValidate(r, ulid_raised) ==
  /\ req[r].pc = "queued"
  /\ loopOwner = 0
  /\ LET ulid == IF ulid_raised THEN 0 ELSE ulids + 1
         v == Validate(settings, req[r].raw, ulid)
         rec == [req[r] EXCEPT !.stages = Append(@, "validate"),
                               !.idgen = IF ulid_raised THEN "failed" ELSE "ok"]
     IN  /\ ulids' = IF ulid_raised THEN ulids ELSE ulids + 1
         /\ IF v.error = NoError
            THEN /\ req' = [req EXCEPT ![r] =
                              [rec EXCEPT !.pc = "retrieve", !.vq = v.value]]
                 /\ loopOwner' = r
            ELSE /\ req' = [req EXCEPT ![r] = Failed(rec, v.error)]
                 /\ loopOwner' = 0
  /\ UNCHANGED <<settings, workload, started, instance, constructions>>

\* Processor.process, step 1: _retrieve_context
StepRetrieve(r) ==
  /\ req[r].pc = "retrieve"
  /\ loopOwner = r
  /\ LET c == RetrieveContext(settings, instance.knowledge_base,
                              req[r].vq.query)
         rec == [req[r] EXCEPT !.stages = Append(@, "retrieve")]
     IN  IF c.error = NoError
         THEN /\ req' = [req EXCEPT ![r] =
                           [rec EXCEPT !.pc = "compose", !.ctx = c.docs]]
              /\ UNCHANGED loopOwner
         ELSE /\ req' = [req EXCEPT ![r] = Failed(rec, c.error)]
              /\ loopOwner' = 0
  /\ UNCHANGED <<settings, workload, started, instance, constructions, ulids>>

\* Processor.process, step 2: build the user message
StepCompose(r) ==
  /\ req[r].pc = "compose"
  /\ loopOwner = r
  /\ req' = [req EXCEPT ![r] =
               [@ EXCEPT !.pc = "call",
                         !.prompt = BuildUserPrompt(req[r].ctx,
                                                    req[r].vq.query),
                         !.stages = Append(@, "compose")]]
  /\ UNCHANGED <<settings, workload, started, instance, constructions, ulids,
                 loopOwner>>

\* Processor.process, step 3: client.chat.completions.create is entered; the
\* synchronous call keeps the handler on the event loop
StepCallLLM(r) ==
  /\ req[r].pc = "call"
  /\ loopOwner = r
  /\ req' = [req EXCEPT ![r] =
               [@ EXCEPT !.pc = "llm_call", !.calls = @ + 1,
                         !.stages = Append(@, "call")]]
  /\ UNCHANGED <<settings, workload, started, instance, constructions, ulids,
                 loopOwner>>

\* the API call returns or raises; Processor.process, step 4, parses it
StepLLMReturn(r, response) ==
  /\ req[r].pc = "llm_call"
  /\ loopOwner = r
  /\ response \in workload.responses
  /\ LET p == ParseResponse(response)
         rec == [req[r] EXCEPT !.resp = <<response>>]
     IN  IF p.error = NoError
         THEN /\ req' = [req EXCEPT ![r] =
                           [rec EXCEPT !.pc = "assemble", !.answer = p.answer]]
              /\ UNCHANGED loopOwner
         ELSE /\ req' = [req EXCEPT ![r] = Failed(rec, p.error)]
              /\ loopOwner' = 0
  /\ UNCHANGED <<settings, workload, started, instance, constructions, ulids>>

\* Pipeline.process, step 3: build the PipelineResult and return it
StepAssemble(r, elapsed) ==
  /\ req[r].pc = "assemble"
  /\ loopOwner = r
  /\ req' = [req EXCEPT ![r] =
               [@ EXCEPT !.pc = "done",
                         !.result = <<PipelineResult(req[r].vq, req[r].answer,
                                                     req[r].ctx, elapsed)>>,
                         !.stages = Append(@, "assemble")]]
  /\ loopOwner' = 0
  /\ UNCHANGED <<settings, workload, started, instance, constructions, ulids>>

Next ==
  \/ StartupEvent
  \/ \E r \in Requests, q \in Queries : Arrive(r, q)
  \/ \E r \in Requests : GetPipelineCheck(r)
  \/ \E r \in Requests : GetPipelineReturn(r)
  \/ \E r \in Requests, ulid_raised \in BOOLEAN :
       StepValidate(r, ulid_raised)
  \/ \E r \in Requests : StepRetrieve(r)
  \/ \E r \in Requests : StepCompose(r)
  \/ \E r \in Requests : StepCallLLM(r)
  \/ \E r \in Requests, response \in LLMResponses : StepLLMReturn(r, response)
  \/ \E r \in Requests, elapsed \in 0..MaxElapsed : StepAssemble(r, elapsed)

Spec == Init /\ [][Next]_vars

SpecConcurrent == InitConcurrent /\ [][Next]_vars

\* ============================================================== properties
\* positions of a request
ValidationRan(r) == req[r].stages # <<>>
ValidationPassed(r) == ValidationRan(r) /\ req[r].vq.query_id # 0
RetrievalReturned(r) == req[r].pc = "compose" \/ Len(req[r].stages) >= 3
PromptComposed(r) == Len(req[r].stages) >= 3
Done(r) == req[r].pc = "done"
FailedWith(r, e) == req[r].pc = "failed" /\ req[r].err = e

\* t is s without its leading and trailing whitespace
IsTrimOf(t, s) ==
  \E i \in 1..(Len(s) + 1), j \in 0..Len(s) :
    /\ t = SubSeq(s, i, j)
    /\ \A n \in 1..(i - 1) : s[n] \in Whitespace
    /\ \A n \in (j + 1)..Len(s) : s[n] \in Whitespace
    /\ t # <<>> => (t[1] \notin Whitespace /\ t[Len(t)] \notin Whitespace)

\* the unique trim of s
Trimmed(s) == CHOOSE t \in {SubSeq(s, i, j) : i \in 1..(Len(s) + 1),
                                              j \in 0..Len(s)} : IsTrimOf(t, s)

InLimits(n) ==
  settings.min_query_length <= n /\ n <= settings.max_query_length

\* C1 as stated: whenever the trimmed length of the raw query lies in
\* [min_length, max_length], validate succeeds and returns the trimmed input.
C1_AsStated ==
  \A r \in Requests :
    (ValidationRan(r) /\ InLimits(Len(Trimmed(req[r].raw))))
      => (ValidationPassed(r) /\ req[r].vq.query = Trimmed(req[r].raw))

\* C1 amended: whenever identifier generation succeeded, the trimmed query is
\* not empty and its length lies in [min_length, max_length], validate
\* succeeds and returns a validated query whose text is the trimmed input.
C1_ValidateAccepts ==
  \A r \in Requests :
    (/\ ValidationRan(r)
     /\ req[r].idgen = "ok"
     /\ Trimmed(req[r].raw) # <<>>
     /\ InLimits(Len(Trimmed(req[r].raw))))
      => (ValidationPassed(r) /\ req[r].vq.query = Trimmed(req[r].raw))

\* a query with surrounding whitespace whose trimmed length is exactly the
\* minimum was accepted
C1_Witness ==
  \E r \in Requests :
    /\ ValidationPassed(r)
    /\ req[r].raw # Trimmed(req[r].raw)
    /\ Len(req[r].vq.query) = settings.min_query_length

OutOfLimitsKind(n, kind) ==
  \/ kind = "too_short" /\ n < settings.min_query_length
  \/ kind = "too_long" /\ n > settings.max_query_length

NoDownstreamCall(r) ==
  /\ req[r].calls = 0
  /\ \A i \in 1..Len(req[r].stages) : req[r].stages[i] = "validate"

\* C2 as stated: a query whose trimmed length is below the minimum or above
\* the maximum fails with the too-short, respectively too-long, error, and
\* the request performs no retrieval and no LLM call.
C2_AsStated ==
  \A r \in Requests :
    (ValidationRan(r) /\ ~InLimits(Len(Trimmed(req[r].raw))))
      => /\ req[r].pc = "failed"
         /\ req[r].err.type = "RuntimeError"
         /\ OutOfLimitsKind(Len(Trimmed(req[r].raw)), req[r].err.kind)
         /\ NoDownstreamCall(r)

\* C2 amended: such a query fails with the too-short, respectively too-long,
\* error, or with the identifier-generation error when generating the
\* identifier failed first, and the request performs no retrieval and no LLM
\* call.
C2_RejectsOutOfLimits ==
  \A r \in Requests :
    (ValidationRan(r) /\ ~InLimits(Len(Trimmed(req[r].raw))))
      => /\ req[r].pc = "failed"
         /\ req[r].err.type = "RuntimeError"
         /\ IF req[r].idgen = "failed"
            THEN req[r].err.kind = "id_generation_failed"
            ELSE OutOfLimitsKind(Len(Trimmed(req[r].raw)), req[r].err.kind)
         /\ NoDownstreamCall(r)

\* a too-long query was rejected as too long
C2_Witness ==
  \E r \in Requests :
    /\ FailedWith(r, RuntimeError("too_long"))
    /\ Len(Trimmed(req[r].raw)) > settings.max_query_length
    /\ req[r].idgen = "ok"

CategorizedErrors ==
  { RuntimeError(k) : k \in ValidationKinds \cup ProcessingKinds }

CompleteOutcome(r) ==
  /\ Len(req[r].result) = 1
  /\ req[r].result[1].query_id # 0
  /\ req[r].result[1].query # <<>>
  /\ req[r].result[1].answer # <<>>
  /\ req[r].err = NoError

\* C3 (claim): a request ends either with a complete outcome or with one
\* categorized error (a validation or a processing error kind), never with
\* an uncategorized error or a half-filled result.
C3_Claim ==
  \A r \in Requests :
    /\ Done(r) => CompleteOutcome(r)
    /\ req[r].pc = "failed"
         => (req[r].err \in CategorizedErrors /\ req[r].result = <<>>)
    /\ req[r].pc \notin {"done", "failed"} => req[r].result = <<>>

ResponseUnusable(resp) ==
  /\ resp.shape # "api_error"
  /\ resp.shape = "content" => Trimmed(resp.content) = <<>>

\* C4 (claim): a response whose message text is empty after trimming, or
\* whose expected fields are absent or malformed, makes Processor.process
\* fail with the parse (empty-response) ProcessingError, and no successful
\* outcome carries an empty answer.
C4_Claim ==
  \A r \in Requests :
    /\ (req[r].resp # <<>> /\ ResponseUnusable(req[r].resp[1]))
         => FailedWith(r, RuntimeError("parse_failed"))
    /\ Done(r) => req[r].result[1].answer # <<>>

\* the knowledge base the processor holds
KnowledgeBase == instance.knowledge_base

RetrievalActive == settings.enable_retrieval /\ KnowledgeBase # <<>>

\* overlap score of the i-th document of the knowledge base with r's query
ScoreOf(r, i) == Overlap(req[r].vq.query, DocText(KnowledgeBase[i]))

\* ctx lists documents picked from the knowledge base by f, each with a
\* positive score, in descending score order, equal scores in corpus order
RankedBy(r, f) ==
  LET ctx == req[r].ctx
  IN  /\ \A i \in 1..Len(ctx) :
           /\ ctx[i] = DocText(KnowledgeBase[f[i]])
           /\ ScoreOf(r, f[i]) > 0
      /\ \A i \in 1..Len(ctx), j \in 1..Len(ctx) :
           i < j => \/ ScoreOf(r, f[i]) > ScoreOf(r, f[j])
                    \/ /\ ScoreOf(r, f[i]) = ScoreOf(r, f[j])
                       /\ f[i] < f[j]

\* C5: with retrieval enabled and a non-empty corpus, the retrieved texts are
\* ordered by descending overlap score, documents of equal score keep their
\* corpus order, and no document of score 0 is returned.
C5_RankedStable ==
  \A r \in Requests :
    (RetrievalReturned(r) /\ RetrievalActive)
      => \E f \in [1..Len(req[r].ctx) -> 1..Len(KnowledgeBase)] :
           RankedBy(r, f)

\* two different documents of equal score were returned, a higher-scoring
\* document was moved in front of an earlier one, and a zero-score document
\* was left out
C5_Witness ==
  \E r \in Requests :
    /\ RetrievalReturned(r) /\ RetrievalActive
    /\ Len(req[r].ctx) >= 3
    /\ \E i \in 1..(Len(req[r].ctx) - 1) :
         /\ req[r].ctx[i] # req[r].ctx[i + 1]
         /\ Overlap(req[r].vq.query, req[r].ctx[i])
              = Overlap(req[r].vq.query, req[r].ctx[i + 1])
    /\ \E i \in 1..Len(KnowledgeBase), j \in 1..Len(KnowledgeBase) :
         i < j /\ 0 < ScoreOf(r, i) /\ ScoreOf(r, i) < ScoreOf(r, j)
    /\ \E i \in 1..Len(KnowledgeBase) : ScoreOf(r, i) = 0

SourcesWithin(r, n) ==
  /\ RetrievalReturned(r) => Len(req[r].ctx) <= n
  /\ Done(r) => Len(req[r].result[1].sources) <= n

\* C6 as stated: for every configured integer top_k the retrieved sequence,
\* and the sources of every outcome, have length at most top_k.
C6_AsStated ==
  \A r \in Requests : SourcesWithin(r, settings.top_k)

\* C6 amended: for every configured top_k >= 0 the retrieved sequence, and
\* the sources of every outcome, have length at most top_k.
C6_AtMostTopK ==
  settings.top_k >= 0 => \A r \in Requests : SourcesWithin(r, settings.top_k)

\* more documents matched than top_k allows and exactly top_k were returned
C6_Witness ==
  \E r \in Requests :
    /\ Done(r) /\ RetrievalActive
    /\ settings.top_k > 0
    /\ Len(ScoredDocs(req[r].vq.query, KnowledgeBase)) > settings.top_k
    /\ Len(req[r].result[1].sources) = settings.top_k

\* t occurs in s at position i
OccursAt(s, t, i) ==
  /\ i >= 1
  /\ i + Len(t) - 1 <= Len(s)
  /\ SubSeq(s, i, i + Len(t) - 1) = t

\* the parts occur in s one after the other, from position from on
RECURSIVE ContainsInOrder(_, _, _)
ContainsInOrder(s, parts, from) ==
  IF parts = <<>> THEN TRUE
  ELSE LET hits == { i \in from..Len(s) : OccursAt(s, Head(parts), i) }
       IN  /\ hits # {}
           /\ LET first == CHOOSE i \in hits : \A k \in hits : i <= k
              IN  ContainsInOrder(s, Tail(parts), first + Len(Head(parts)))

\* C7: with an empty context the user message equals the query text; with a
\* non-empty context it contains every context entry, in retrieval order,
\* followed by the query text.
C7_PromptComposition ==
  \A r \in Requests :
    PromptComposed(r)
      => IF req[r].ctx = <<>>
         THEN req[r].prompt = req[r].vq.query
         ELSE ContainsInOrder(req[r].prompt,
                              Append(req[r].ctx, req[r].vq.query), 1)

\* an LLM call was issued with a prompt built from two different context
\* entries
C7_Witness ==
  \E r \in Requests :
    /\ req[r].pc = "llm_call"
    /\ Len(req[r].ctx) >= 2
    /\ req[r].ctx[1] # req[r].ctx[2]
    /\ req[r].prompt # req[r].vq.query

\* C8: with retrieval disabled, or an empty loaded corpus, retrieval returns
\* the empty sequence for every query, and every successful outcome has no
\* sources, sources_count 0 and has_context false.
C8_DirectMode ==
  \A r \in Requests :
    (ValidationPassed(r) /\ ~RetrievalActive)
      => /\ RetrievalReturned(r) => req[r].ctx = <<>>
         /\ ~(req[r].pc = "failed" /\ Len(req[r].stages) = 2)
         /\ Done(r) =>
              /\ req[r].result[1].sources = <<>>
              /\ req[r].result[1].metadata.sources_count = 0
              /\ req[r].result[1].metadata.has_context = FALSE

\* a request succeeded with retrieval disabled although the knowledge base
\* file holds documents that match its query
C8_Witness ==
  \E r \in Requests :
    /\ Done(r)
    /\ ~settings.enable_retrieval
    /\ ScoredDocs(req[r].vq.query, settings.kb_file.lines) # <<>>

\* a request that has arrived and not yet ended
InFlight(q) == req[q].pc \notin {"idle", "done", "failed"}

\* some step of request q
RequestStep(q) ==
  \/ GetPipelineCheck(q)
  \/ GetPipelineReturn(q)
  \/ \E ulid_raised \in BOOLEAN : StepValidate(q, ulid_raised)
  \/ StepRetrieve(q)
  \/ StepCompose(q)
  \/ StepCallLLM(q)
  \/ \E response \in LLMResponses : StepLLMReturn(q, response)
  \/ \E elapsed \in 0..MaxElapsed : StepAssemble(q, elapsed)

\* C9 (claim): while one request is inside the LLM call, every other
\* in-flight request can still take a step.
C9_Claim ==
  \A r \in Requests, q \in Requests :
    (r # q /\ req[r].pc = "llm_call" /\ InFlight(q)) => ENABLED RequestStep(q)

\* the requests whose get_pipeline dependency has been resolved
Resolved(r) == req[r].pc \notin {"idle", "dep", "dep_checked"}

Structure(result) ==
  [result EXCEPT !.answer = <<>>, !.query_id = 0, !.processing_time_ms = 0]

\* C11: two requests with the same input that both succeed, whatever
\* non-empty answers the LLM gave them and however their steps interleave
\* with other requests, have outcomes that agree on query, sources and
\* metadata and differ at most in answer, query_id and processing_time_ms.
C11_SameStructure ==
  \A r \in Requests, q \in Requests :
    (Done(r) /\ Done(q) /\ req[r].raw = req[q].raw)
      => /\ req[r].result[1].query = req[q].result[1].query
         /\ req[r].result[1].sources = req[q].result[1].sources
         /\ req[r].result[1].metadata = req[q].result[1].metadata
         /\ Structure(req[r].result[1]) = Structure(req[q].result[1])

\* two requests with the same input succeeded with different answers,
\* identifiers and elapsed times, and with sources retrieved
C11_Witness ==
  \E r \in Requests, q \in Requests :
    /\ r # q
    /\ Done(r) /\ Done(q)
    /\ req[r].raw = req[q].raw
    /\ req[r].result[1].answer # req[q].result[1].answer
    /\ req[r].result[1].query_id # req[q].result[1].query_id
    /\ req[r].result[1].processing_time_ms
         # req[q].result[1].processing_time_ms
    /\ Len(req[r].result[1].sources) >= 2

StageOrder == <<"validate", "retrieve", "compose", "call", "assemble">>

\* the stages of r ran in the fixed order, none skipped or repeated
StagesInOrder(r) ==
  /\ Len(req[r].stages) <= Len(StageOrder)
  /\ req[r].stages = SubSeq(StageOrder, 1, Len(req[r].stages))

Ended(r) == req[r].pc \in {"done", "failed"}

\* the LLM call of r returned a message whose trimmed text is not empty
AnswerReturned(r) ==
  /\ req[r].resp # <<>>
  /\ req[r].resp[1].shape = "content"
  /\ Trimmed(req[r].resp[1].content) # <<>>

\* the outcome is assembled only after the single call returned an answer
AssembledAfterAnswer(r) ==
  (req[r].pc \in {"assemble", "done"} \/ req[r].result # <<>>)
    => (req[r].calls = 1 /\ AnswerReturned(r))

\* C12 (claim): the stages of a request run in the order validate, retrieve,
\* compose, call LLM, assemble; a request that passed validation issues
\* exactly one LLM call, never none and never a second; and the outcome is
\* assembled only after that call returned a non-empty answer.
C12_Claim ==
  \A r \in Requests :
    /\ StagesInOrder(r)
    /\ req[r].calls <= 1
    /\ (ValidationPassed(r) /\ Ended(r)) => req[r].calls = 1
    /\ ~ValidationPassed(r) => req[r].calls = 0
    /\ AssembledAfterAnswer(r)

\* what remains of C12 when a request may end in retrieval before its call
C12_OrderAndAtMostOneCall ==
  \A r \in Requests :
    /\ StagesInOrder(r)
    /\ req[r].calls <= 1
    /\ (ValidationPassed(r) /\ Ended(r) /\ Len(req[r].stages) > 2)
         => req[r].calls = 1
    /\ ~ValidationPassed(r) => req[r].calls = 0
    /\ AssembledAfterAnswer(r)

====
